---------------------------- MODULE Spec2Model ----------------------------
(***************************************************************************)
(* SideKick: the incremental text-to-speech delivery pipeline.             *)
(*                                                                         *)
(*   SentenceBuffer (src/js/sentence-buffer.js) accumulates text chunks    *)
(*   and emits complete sentences; TTSQueue (src/js/tts-queue.js) speaks   *)
(*   them one at a time through window.speechSynthesis; App                *)
(*   (src/js/app.js) wires the first into the second and interrupts both.  *)
(*                                                                         *)
(* A JavaScript string is modelled as a sequence of one-character strings, *)
(* so that trim(), substring() and the sentence regex are computed the way *)
(* the code computes them.                                                 *)
(***************************************************************************)
EXTENDS Integers, Sequences, FiniteSets, TLC

VARIABLES
    buffer,     \* SentenceBuffer.buffer
    tts,        \* the TTSQueue object and the platform speech service it drives
    app,        \* App.isProcessing, and the analysis stream: none, open, or complete
                \* (its complete event delivered), with the chunk events received
                \* and the hazard events handled so far; App.lastCaptureTime, the
                \* clock, and how far an accepted captureAndAnalyze has come
    input,      \* history: concatenation of the chunks added since the last reset() or
                \* emitting flush()
    out,        \* history: the sentences addChunk emitted for them, in order
    flushOut,   \* history: the sentences flush() emitted since the last addChunk or reset()
    last        \* history: the last handler that ran, when a property below speaks of it

vars == <<buffer, tts, app, input, out, flushOut, last>>

(***************************************************************************)
(* Bounds of the model.                                                    *)
(***************************************************************************)
MaxChunk == 3       \* longest generated chunk, in characters
MaxInput == 6       \* longest generated concatenation of chunks, in characters
MaxItems == 3       \* items enqueued in one run of the scheduler alone
MaxUnlockCalls == 1 \* direct calls of unlockAudio() in one run
MaxSentences == 3   \* sentences the application enqueues in one run
MaxWarnings == 1    \* hazard events the application handles in one run
TickMs == 1000      \* the step of the clock, in milliseconds
MaxTime == 12000    \* the clock stops here

(***************************************************************************)
(* Characters and the string primitives the code uses.                     *)
(***************************************************************************)
WhiteSpace == {" ", "\t", "\n"}

Terminators == {".", "!", "?"}

\* the class \s of the regex and of String.prototype.trim
IsSpace(c) == c \in WhiteSpace

\* the class [.!?] of the regex
IsTerm(c) == c \in Terminators

Min(S) == CHOOSE x \in S : \A y \in S : x <= y

Max(S) == CHOOSE x \in S : \A y \in S : x >= y

\* String.prototype.trim: drop the leading and the trailing white space
trim(s) ==
    LET keep == {i \in 1..Len(s) : ~IsSpace(s[i])}
    IN  IF keep = {} THEN <<>> ELSE SubSeq(s, Min(keep), Max(keep))

\* e is s without the white space at its ends
IsTrimOf(e, s) ==
    \E i \in 0..Len(s), j \in 0..Len(s) :
        /\ i + Len(e) + j = Len(s)
        /\ \A k \in 1..Len(s) : (k <= i \/ k > i + Len(e)) => IsSpace(s[k])
        /\ \A k \in 1..Len(e) : e[k] = s[i + k]
        /\ e = <<>> \/ (~IsSpace(e[1]) /\ ~IsSpace(e[Len(e)]))

\* String.prototype.substring(from) and substring(from, to), 0-based, to exclusive
substring(s, from, to) == SubSeq(s, from + 1, to)

\* the last position of the greedy run [.!?]+ that starts at position i (1-based)
TermRunEnd(s, i) ==
    CHOOSE j \in i..Len(s) :
        /\ \A k \in i..j : IsTerm(s[k])
        /\ j = Len(s) \/ ~IsTerm(s[j + 1])

\* the last position of the greedy run \s+ that starts at position i (1-based)
SpaceRunEnd(s, i) ==
    CHOOSE j \in i..Len(s) :
        /\ \A k \in i..j : IsSpace(s[k])
        /\ j = Len(s) \/ ~IsSpace(s[j + 1])

NoMatch == [found |-> FALSE, index |-> 0, len1 |-> 0, len0 |-> 0]

\* the regex without its \s+ : a run of terminators is a match wherever it stands
exec_anywhere(s, from) ==
    LET starts == {i \in (from + 1)..Len(s) : IsTerm(s[i])}
    IN  IF starts = {} THEN NoMatch
        ELSE LET i == Min(starts)
                 j == TermRunEnd(s, i)
             IN  [found |-> TRUE, index |-> i - 1, len1 |-> j - i + 1, len0 |-> j - i + 1]

\* the regex as /([.!?])\s*/ : every terminator of a run is a match of its own
exec_eachTerminator(s, from) ==
    LET starts == {i \in (from + 1)..Len(s) :
                      /\ IsTerm(s[i])
                      /\ LET j == TermRunEnd(s, i)
                         IN  j < Len(s) /\ IsSpace(s[j + 1])}
    IN  IF starts = {} THEN NoMatch
        ELSE LET i == Min(starts)
                 k == IF IsSpace(s[i + 1]) THEN SpaceRunEnd(s, i + 1) ELSE i
             IN  [found |-> TRUE, index |-> i - 1, len1 |-> 1, len0 |-> k - i + 1]

\* sentenceEndRegex.exec(s) with the regex's lastIndex at `from` (0-based):
\* the leftmost match of /([.!?]+)\s+/ at or after `from`.  index is
\* match.index, len1 is match[1].length, len0 is match[0].length.
exec(s, from) ==
    LET starts == {i \in (from + 1)..Len(s) :
                      /\ IsTerm(s[i])
                      /\ LET j == TermRunEnd(s, i)
                         IN  j < Len(s) /\ IsSpace(s[j + 1])}
    IN  IF starts = {} THEN NoMatch
        ELSE LET i == Min(starts)
                 j == TermRunEnd(s, i)
                 k == SpaceRunEnd(s, j + 1)
             IN  [found |-> TRUE, index |-> i - 1, len1 |-> j - i + 1, len0 |-> k - i + 1]

(***************************************************************************)
(* SentenceBuffer                                                          *)
(***************************************************************************)
\* A JavaScript value handed to addChunk or enqueue: a string, or something that is
\* no string (undefined, null, a number).
Str(s) == [type |-> "string", str |-> s]

NotAString == [type |-> "undefined", str |-> <<>>]

\* the loop of addChunk as an `if`: the first match only
scan_once(buf, regexLastIndex, lastIndex, sentences) ==
    LET match == exec(buf, regexLastIndex)
    IN  IF ~match.found
        THEN [lastIndex |-> lastIndex, sentences |-> sentences]
        ELSE [lastIndex |-> match.index + match.len0,
              sentences |->
                  Append(sentences,
                         trim(substring(buf, lastIndex, match.index + match.len1)))]

\* the loop of addChunk with `sentences.unshift(sentence)`: the newest sentence first
RECURSIVE scan_unshift(_, _, _, _)
scan_unshift(buf, regexLastIndex, lastIndex, sentences) ==
    LET match == exec(buf, regexLastIndex)
    IN  IF ~match.found
        THEN [lastIndex |-> lastIndex, sentences |-> sentences]
        ELSE LET sentence == trim(substring(buf, lastIndex, match.index + match.len1))
                 pushed   == IF sentence # <<>> THEN <<sentence>> \o sentences ELSE sentences
             IN  scan_unshift(buf, match.index + match.len0, match.index + match.len0, pushed)

\* the while loop of addChunk: one iteration per regex match
RECURSIVE scan(_, _, _, _)
scan(buf, regexLastIndex, lastIndex, sentences) ==
    LET match == exec(buf, regexLastIndex)
    IN  IF ~match.found
        THEN [lastIndex |-> lastIndex, sentences |-> sentences]
        ELSE LET sentence == trim(substring(buf, lastIndex, match.index + match.len1))
                 pushed   == IF sentence # <<>> THEN Append(sentences, sentence) ELSE sentences
             IN  scan(buf, match.index + match.len0, match.index + match.len0, pushed)

\* addChunk with a guard that also rejects a white-space-only chunk
addChunk_trimGuard(buf, chunk) ==
    IF chunk.type # "string" \/ trim(chunk.str) = <<>>
    THEN [buffer |-> buf, sentences |-> <<>>]
    ELSE LET added == buf \o chunk.str
             r     == scan(added, 0, 0, <<>>)
         IN  [buffer    |-> IF r.lastIndex > 0
                            THEN substring(added, r.lastIndex, Len(added))
                            ELSE added,
              sentences |-> r.sentences]

\* addChunk without the truncation `this.buffer = this.buffer.substring(lastIndex)`
addChunk_keepAll(buf, chunk) ==
    IF chunk.str = <<>> \/ chunk.type # "string"
    THEN [buffer |-> buf, sentences |-> <<>>]
    ELSE LET added == buf \o chunk.str
             r     == scan(added, 0, 0, <<>>)
         IN  [buffer |-> added, sentences |-> r.sentences]

\* addChunk that keeps the rest of the buffer trimmed
addChunk_trimRest(buf, chunk) ==
    IF chunk.str = <<>> \/ chunk.type # "string"
    THEN [buffer |-> buf, sentences |-> <<>>]
    ELSE LET added == buf \o chunk.str
             r     == scan(added, 0, 0, <<>>)
         IN  [buffer    |-> trim(substring(added, r.lastIndex, Len(added))),
              sentences |-> r.sentences]

\* addChunk(chunk) on a buffer: the new buffer and the sentences handed to onSentence, in order
addChunk(buf, chunk) ==
    IF chunk.str = <<>> \/ chunk.type # "string"
    THEN [buffer |-> buf, sentences |-> <<>>]
    ELSE LET added == buf \o chunk.str
             r     == scan(added, 0, 0, <<>>)
         IN  [buffer    |-> IF r.lastIndex > 0
                            THEN substring(added, r.lastIndex, Len(added))
                            ELSE added,
              sentences |-> r.sentences]

\* flush() that emits the buffer as it is
flush_untrimmed(buf) ==
    IF trim(buf) # <<>>
    THEN [buffer |-> <<>>, sentences |-> <<buf>>]
    ELSE [buffer |-> buf, sentences |-> <<>>]

\* flush() without `this.buffer = ''`
flush_keepBuffer(buf) ==
    LET remaining == trim(buf)
    IN  IF remaining # <<>>
        THEN [buffer |-> buf, sentences |-> <<remaining>>]
        ELSE [buffer |-> buf, sentences |-> <<>>]

\* flush() on a buffer: the new buffer and the sentences handed to onSentence
flush(buf) ==
    LET remaining == trim(buf)
    IN  IF remaining # <<>>
        THEN [buffer |-> <<>>, sentences |-> <<remaining>>]
        ELSE [buffer |-> buf, sentences |-> <<>>]

\* reset() that hands the buffered text to onSentence before it clears the buffer
reset_emitting(buf) ==
    [buffer |-> <<>>, sentences |-> IF trim(buf) # <<>> THEN <<trim(buf)>> ELSE <<>>]

\* reset() on a buffer
reset(buf) == [buffer |-> <<>>, sentences |-> <<>>]


(***************************************************************************)
(* window.speechSynthesis, as TTSQueue sees it.                            *)
(*                                                                         *)
(* An utterance handed to synth.speak waits in the platform's queue        *)
(* (tts.pending); only the head of that queue is worked on.  The platform  *)
(* reports start, end and error of an utterance by events that run the     *)
(* utterance's onstart / onend / onerror handler later, each as its own    *)
(* task.  synth.cancel() empties the platform's queue; the end or error    *)
(* event of an utterance removed that way is still owed and may arrive at  *)
(* any later time: tts.cancelled holds the removed placeholders of         *)
(* unlockAudio(), tts.owed counts the removed content utterances, whose    *)
(* handlers do not depend on the utterance.                                *)
(***************************************************************************)
NoItem == [id |-> 0, text |-> <<>>]

\* new SpeechSynthesisUtterance(text), for a queued item
ContentUtterance(item) ==
    [kind |-> "content", item |-> item, n |-> item.id, then |-> "none", started |-> FALSE]

\* the placeholder utterance of unlockAudio().  `then` is what the caller chains on
\* the returned promise: "speak" (speak() retries item) or "none"; n numbers the
\* calls that are not speak()'s
UnlockUtterance(item, n, then) ==
    [kind |-> "unlock", item |-> item, n |-> n, then |-> then, started |-> FALSE]

\* synth.speak(utterance)
synthSpeak(T, u) == [T EXCEPT !.pending = Append(@, u)]

\* synth.cancel()
synthCancel(T) ==
    LET removed == {T.pending[k] : k \in 1..Len(T.pending)}
    IN  [T EXCEPT !.pending = <<>>,
                  !.cancelled = @ \cup {u \in removed : u.kind = "unlock"},
                  !.owed = @ + Cardinality({u \in removed : u.kind = "content"})]

\* if (this.synth.paused) this.synth.resume()
resumeIfPaused(T) == IF T.paused THEN [T EXCEPT !.paused = FALSE] ELSE T

(***************************************************************************)
(* TTSQueue                                                                *)
(***************************************************************************)
\* an utterance has started and is still the one the platform works on
Speaking(T) ==
    /\ T.isSpeaking
    /\ Len(T.pending) > 0
    /\ Head(T.pending).kind = "content" /\ Head(T.pending).started

\* history: no clearQueue() to speak of
NoClear == [n |-> 0, next |-> 0]

\* unlockAudio() while audioUnlocked is false: the placeholder is spoken and the
\* promise stays pending until the placeholder ends or errors
unlockAudio(T, item, then) ==
    synthSpeak([T EXCEPT !.placeholders = @ + 1],
               UnlockUtterance(item, IF then = "speak" THEN 0 ELSE T.directUnlocks, then))

RECURSIVE speak(_, _)
RECURSIVE processQueue(_)

\* speak(text) without `this.synth.cancel()`
speak_noCancel(T, item) ==
    IF ~T.audioUnlocked
    THEN unlockAudio(T, item, "speak")
    ELSE IF ~T.voicesLoaded
    THEN [T EXCEPT !.timers = Append(@, item)]
    ELSE synthSpeak([resumeIfPaused(T) EXCEPT !.spoken = Append(@, item)],
                    ContentUtterance(item))

\* speak(text).  On a platform whose synth.speak throws (T.throws), the catch branch
\* runs after synth.cancel(): the item is dropped (failed, history) and processQueue()
\* goes on with the next one.
speak(T, item) ==
    IF ~T.audioUnlocked
    THEN unlockAudio(T, item, "speak")
    ELSE IF ~T.voicesLoaded
    THEN [T EXCEPT !.timers = Append(@, item)]
    ELSE LET c == resumeIfPaused(synthCancel(T))
         IN  IF c.throws
             THEN processQueue([c EXCEPT !.isSpeaking = FALSE,
                                         !.currentUtterance = 0,
                                         !.failed = @ \cup {item.id}])
             ELSE synthSpeak([c EXCEPT !.spoken = Append(@, item)],
                             ContentUtterance(item))

\* processQueue() without the `if (this.isSpeaking) return`
processQueue_noGuard(T) ==
    IF Len(T.queue) = 0
    THEN T
    ELSE speak([T EXCEPT !.queue = Tail(@)], Head(T.queue))

\* processQueue()
processQueue(T) ==
    IF T.isSpeaking
    THEN T
    ELSE IF Len(T.queue) = 0
    THEN T
    ELSE speak([T EXCEPT !.queue = Tail(@)], Head(T.queue))

\* enqueue(text) with `this.queue.push(text)`: the text as it was handed over
enqueue_untrimmed(T, text) ==
    IF text.type # "string" \/ text.str = <<>> \/ Len(trim(text.str)) = 0
    THEN T
    ELSE processQueue([T EXCEPT !.queue = Append(@, [id |-> T.nextId, text |-> text.str]),
                                !.nextId = @ + 1])

\* enqueue(text)
enqueue(T, text) ==
    IF text.type # "string" \/ text.str = <<>> \/ Len(trim(text.str)) = 0
    THEN T
    ELSE LET trimmed == trim(text.str)
         IN  processQueue([T EXCEPT !.queue = Append(@, [id |-> T.nextId, text |-> trimmed]),
                                    !.nextId = @ + 1])

\* utterance.onstart without `this.currentUtterance = utterance`
onstart_flagOnly(T, u) == [T EXCEPT !.isSpeaking = TRUE]

\* utterance.onstart
onstart(T, u) == [T EXCEPT !.isSpeaking = TRUE, !.currentUtterance = u.n]

\* handleUtteranceEnd() without `this.processQueue()`
handleUtteranceEnd_idle(T) == [T EXCEPT !.isSpeaking = FALSE, !.currentUtterance = 0]

\* handleUtteranceEnd()
handleUtteranceEnd(T) ==
    processQueue([T EXCEPT !.isSpeaking = FALSE, !.currentUtterance = 0])

\* handleUtteranceError(event) without `this.processQueue()`
handleUtteranceError_idle(T) == [T EXCEPT !.isSpeaking = FALSE, !.currentUtterance = 0]

\* handleUtteranceError(event) that puts the failed text back at the head of the queue
handleUtteranceError_retry(T) ==
    LET again == SelectSeq(T.spoken, LAMBDA it : it.id = T.currentUtterance)
    IN  processQueue([T EXCEPT !.isSpeaking = FALSE,
                               !.currentUtterance = 0,
                               !.queue = again \o @])

\* handleUtteranceError(event)
handleUtteranceError(T) ==
    processQueue([T EXCEPT !.isSpeaking = FALSE, !.currentUtterance = 0])

\* unlockUtterance.onend and unlockUtterance.onerror, with no continuation chained
\* on the promise by speak()
unlockSettled_noRetry(T, u) == [T EXCEPT !.audioUnlocked = TRUE, !.resolved = @ + 1]

\* unlockUtterance.onend and unlockUtterance.onerror, then the promise's continuation
unlockSettled(T, u) ==
    LET unlocked == [T EXCEPT !.audioUnlocked = TRUE, !.resolved = @ + 1]
    IN  IF u.then = "speak" THEN speak(unlocked, u.item) ELSE unlocked

\* stop() without `this.queue = []`
stop_keepQueue(T) ==
    LET c == synthCancel(T)
    IN  resumeIfPaused([c EXCEPT !.isSpeaking = FALSE,
                                 !.currentUtterance = 0,
                                 !.interrupted = TRUE])

\* stop() without `if (this.synth.paused) this.synth.resume()`
stop_noResume(T) ==
    LET c == synthCancel(T)
    IN  [c EXCEPT !.isSpeaking = FALSE,
                  !.currentUtterance = 0,
                  !.queue = <<>>,
                  !.discarded = @ \cup {T.queue[k].id : k \in 1..Len(T.queue)},
                  !.interrupted = TRUE]

\* stop() that also assigns `this.audioUnlocked = false`
stop_relock(T) ==
    LET c == synthCancel(T)
    IN  resumeIfPaused([c EXCEPT !.isSpeaking = FALSE,
                                 !.currentUtterance = 0,
                                 !.queue = <<>>,
                                 !.discarded = @ \cup {T.queue[k].id : k \in 1..Len(T.queue)},
                                 !.interrupted = TRUE,
                                 !.cleared = NoClear,
                                 !.audioUnlocked = FALSE])

\* stop()
stop(T) ==
    LET c == synthCancel(T)
    IN  resumeIfPaused([c EXCEPT !.isSpeaking = FALSE,
                                 !.currentUtterance = 0,
                                 !.queue = <<>>,
                                 !.discarded = @ \cup {T.queue[k].id : k \in 1..Len(T.queue)},
                                 !.interrupted = TRUE,
                                 !.cleared = NoClear])

\* clearQueue().  cleared (history) records the utterance that was being spoken, and
\* the number of the next item, so as to tell whether enqueue has run since
clearQueue(T) ==
    [T EXCEPT !.queue = <<>>,
              !.discarded = @ \cup {T.queue[k].id : k \in 1..Len(T.queue)},
              !.interrupted = TRUE,
              !.cleared = IF Speaking(T)
                          THEN [n |-> Head(T.pending).n, next |-> T.nextId]
                          ELSE NoClear]

\* the callback of the 500 ms setTimeout in speak(), without the forced
\* `this.voicesLoaded = true`
voiceWaitTimeout_noForce(T, item) == speak(T, item)

\* the callback of the 500 ms setTimeout in speak()
voiceWaitTimeout(T, item) ==
    IF T.voicesLoaded
    THEN speak(T, item)
    ELSE speak([T EXCEPT !.voicesLoaded = TRUE], item)

\* the TTSQueue constructor, on a platform whose voice list is loaded (v) or not
TTSQueue(v) ==
    [queue |-> <<>>, isSpeaking |-> FALSE, currentUtterance |-> 0,
     voicesLoaded |-> v, audioUnlocked |-> FALSE,
     \* the platform and the event loop
     pending |-> <<>>, cancelled |-> {}, owed |-> 0, paused |-> FALSE, throws |-> FALSE,
     timers |-> <<>>, fallback |-> ~v,
     \* history
     nextId |-> 1, directUnlocks |-> 0, placeholders |-> 0, resolved |-> 0,
     spoken |-> <<>>,
     discarded |-> {}, interrupted |-> FALSE, stale |-> {}, cleared |-> NoClear,
     failed |-> {}]


(***************************************************************************)
(* The platform's events and the timers, each one task of the event loop.  *)
(***************************************************************************)
\* the handlers, with an onerror of the placeholder that leaves the promise pending
settled_errorPending(T, u, event) ==
    IF u.kind = "unlock" THEN (IF event = "end" THEN unlockSettled(T, u) ELSE T)
    ELSE IF event = "end" THEN handleUtteranceEnd(T)
    ELSE handleUtteranceError(T)

\* the handler an end or error event of utterance u runs
settled(T, u, event) ==
    IF u.kind = "unlock" THEN unlockSettled(T, u)
    ELSE IF event = "end" THEN handleUtteranceEnd(T)
    ELSE handleUtteranceError(T)

HasHead == Len(tts.pending) > 0

\* history: what `last` records of a step
Handler(op, arg) == [op |-> op, arg |-> arg]

Other == Handler("other", 0)

\* history: the error event of a content utterance has run its handler in state T;
\* arg is the id of the item at the head of the queue (0: none)
ContentError(T) == Handler("error", IF Len(T.queue) > 0 THEN Head(T.queue).id ELSE 0)

\* history: the error event of utterance u has run its handler in state T; for a
\* placeholder, arg is the id of the item speak() holds back for it (0: none)
ErrorOf(T, u) ==
    IF u.kind = "content" THEN ContentError(T) ELSE Handler("unlockError", u.item.id)

\* history: the end event of utterance u has run its handler in state T; for a
\* content utterance, arg is the id of the item at the head of the queue (0: none)
EndOf(T, u) ==
    IF u.kind = "content"
    THEN Handler("end", IF Len(T.queue) > 0 THEN Head(T.queue).id ELSE 0)
    ELSE Other

\* the platform begins to speak the head utterance: its start event
UtteranceStart ==
    /\ HasHead /\ ~tts.paused
    /\ Head(tts.pending).kind = "content" /\ ~Head(tts.pending).started
    /\ tts' = onstart([tts EXCEPT !.pending[1].started = TRUE], Head(tts.pending))
    /\ last' = Other
    /\ UNCHANGED <<buffer, app, input, out, flushOut>>

\* the head utterance has been spoken to its end: its end event
UtteranceEnd ==
    /\ HasHead /\ ~tts.paused
    /\ Head(tts.pending).kind = "unlock" \/ Head(tts.pending).started
    /\ tts' = settled([tts EXCEPT !.pending = Tail(@)], Head(tts.pending), "end")
    /\ last' = EndOf(tts, Head(tts.pending))
    /\ UNCHANGED <<buffer, app, input, out, flushOut>>

\* the platform fails on the head utterance, started or not: its error event
UtteranceError ==
    /\ HasHead
    /\ tts' = settled([tts EXCEPT !.pending = Tail(@)], Head(tts.pending), "error")
    /\ last' = ErrorOf(tts, Head(tts.pending))
    /\ UNCHANGED <<buffer, app, input, out, flushOut>>

\* the end or error event owed to an utterance that synth.cancel() removed
CancelledEvent ==
    /\ \/ /\ \E u \in tts.cancelled :
                tts' = unlockSettled([tts EXCEPT !.cancelled = @ \ {u}], u)
          /\ last' = Other
       \/ /\ tts.owed > 0
          /\ tts' = handleUtteranceEnd([tts EXCEPT !.owed = @ - 1])
          /\ last' = Handler("lateEnd", 0)
       \/ /\ tts.owed > 0
          /\ tts' = handleUtteranceError([tts EXCEPT !.owed = @ - 1])
          /\ last' = ContentError(tts)
    /\ UNCHANGED <<buffer, app, input, out, flushOut>>

\* the oldest pending 500 ms voice-wait timer of speak() fires
VoiceWaitTimeout ==
    /\ Len(tts.timers) > 0
    /\ tts' = voiceWaitTimeout([tts EXCEPT !.timers = Tail(@)], Head(tts.timers))
    /\ last' = Handler("voiceWait", IF tts.voicesLoaded THEN 1 ELSE 0)
    /\ UNCHANGED <<buffer, app, input, out, flushOut>>

\* onVoicesChanged of loadVoices(), on a voiceschanged event that finds voices
\* (one that finds none changes nothing)
VoicesChanged ==
    /\ ~tts.voicesLoaded
    /\ tts' = [tts EXCEPT !.voicesLoaded = TRUE]
    /\ last' = Other
    /\ UNCHANGED <<buffer, app, input, out, flushOut>>

\* the 1000 ms fallback timer of loadVoices() fires; getVoices() is empty or not
VoicesFallbackTimeout ==
    /\ tts.fallback
    /\ \E haveVoices \in BOOLEAN :
          tts' = [tts EXCEPT !.fallback = FALSE,
                             !.voicesLoaded = IF ~@ /\ haveVoices THEN TRUE ELSE @]
    /\ last' = Other
    /\ UNCHANGED <<buffer, app, input, out, flushOut>>

\* iOS pauses speechSynthesis on its own
PlatformPause ==
    /\ ~tts.paused
    /\ tts' = [tts EXCEPT !.paused = TRUE]
    /\ last' = Other
    /\ UNCHANGED <<buffer, app, input, out, flushOut>>

\* the callback of setupIOSResume() that resumes whenever the engine is paused
resumePoll_always(T) == IF T.paused THEN [T EXCEPT !.paused = FALSE] ELSE T

\* the callback of the 2000 ms interval of setupIOSResume()
resumePoll(T) == IF T.isSpeaking /\ T.paused THEN [T EXCEPT !.paused = FALSE] ELSE T

\* one tick of the 2000 ms interval of setupIOSResume(); a tick that changes nothing
\* leaves no trace in `last`
ResumePoll ==
    /\ tts' = resumePoll(tts)
    /\ last' = IF tts' # tts THEN Handler("resumePoll", 1) ELSE last
    /\ UNCHANGED <<buffer, app, input, out, flushOut>>

Platform ==
    \/ UtteranceStart
    \/ UtteranceEnd
    \/ UtteranceError
    \/ CancelledEvent
    \/ VoiceWaitTimeout
    \/ VoicesChanged
    \/ VoicesFallbackTimeout
    \/ PlatformPause
    \/ ResumePoll

(***************************************************************************)
(* The scheduler alone, driven by an arbitrary caller.                     *)
(***************************************************************************)
Letters == <<"a", "b", "c", "d", "e", "f", "g", "h">>

\* the n-th speakable text the caller enqueues: a one-letter text of its own, with
\* white space around it for every other one
Speakable(n) == IF n % 2 = 1 THEN <<" ", Letters[n], " ">> ELSE <<Letters[n]>>

\* the texts the caller may hand to enqueue when n - 1 items have been accepted:
\* nothing speakable, or the n-th speakable text
RawTexts(n) == {Str(<<>>), Str(<<" ">>), NotAString, Str(Speakable(n))}

\* history: enqueue ran, with a text that is speakable (arg 1) or not (arg 0)
EnqueueOf(text, n) == Handler("enqueue", IF text = Str(Speakable(n)) THEN 1 ELSE 0)

Enqueue ==
    /\ tts.nextId <= MaxItems
    /\ \E text \in RawTexts(tts.nextId) :
          /\ tts' = enqueue(tts, text)
          /\ last' = EnqueueOf(text, tts.nextId)
    /\ UNCHANGED <<buffer, app, input, out, flushOut>>

\* stop(); arg tells whether the platform was paused (1) or not (0)
Stop ==
    /\ tts' = stop(tts)
    /\ last' = Handler("stop", IF tts.paused THEN 1 ELSE 0)
    /\ UNCHANGED <<buffer, app, input, out, flushOut>>

ClearQueue ==
    /\ tts' = clearQueue(tts)
    /\ last' = Handler("clearQueue", 0)
    /\ UNCHANGED <<buffer, app, input, out, flushOut>>

\* unlockAudio() called by a caller that chains nothing on the promise; arg is the
\* number of placeholders handed to the platform before the call
UnlockAudio ==
    /\ tts.directUnlocks < MaxUnlockCalls
    /\ tts' = IF tts.audioUnlocked
              THEN [tts EXCEPT !.directUnlocks = @ + 1]
              ELSE unlockAudio([tts EXCEPT !.directUnlocks = @ + 1], NoItem, "none")
    /\ last' = Handler("unlockAudio", tts.placeholders)
    /\ UNCHANGED <<buffer, app, input, out, flushOut>>

(***************************************************************************)
(* ApiClient.analyzeImageStream: the read loop over the response body.     *)
(***************************************************************************)
LF == "\n"

\* 'event: ' and 'data: '
EventPrefix == <<"e", "v", "e", "n", "t", ":", " ">>

DataPrefix == <<"d", "a", "t", "a", ":", " ">>

\* the server's `event: ${name}\ndata: ${JSON.stringify(data)}\n\n`
Message(name, data) ==
    EventPrefix \o name \o <<LF>> \o DataPrefix \o data \o <<LF, LF>>

\* the events of one response, as the server sends them: start, two chunks, complete.
\* Each data is a JSON text.
SseEvents ==
    << [event |-> <<"s", "t", "a", "r", "t">>, data |-> <<"{", "\"", "s", "\"", ":", "1", "}">>],
       [event |-> <<"c", "h", "u", "n", "k">>, data |-> <<"{", "\"", "t", "\"", ":", "\"", "a", "\"", "}">>],
       [event |-> <<"c", "h", "u", "n", "k">>, data |-> <<"{", "\"", "t", "\"", ":", "\"", "b", "\"", "}">>],
       [event |-> <<"c", "o", "m", "p", "l", "e", "t", "e">>, data |-> <<"{", "\"", "d", "\"", ":", "1", "}">>] >>

\* the bytes of the response body
RECURSIVE Bytes(_)
Bytes(events) ==
    IF events = <<>> THEN <<>>
    ELSE Message(Head(events).event, Head(events).data) \o Bytes(Tail(events))

SseBody == Bytes(SseEvents)

\* the cases of the switch in processStream
KnownEvents ==
    {<<"s", "t", "a", "r", "t">>,
     <<"c", "h", "u", "n", "k">>,
     <<"h", "a", "z", "a", "r", "d">>,
     <<"c", "o", "m", "p", "l", "e", "t", "e">>,
     <<"d", "o", "n", "e">>,
     <<"e", "r", "r", "o", "r">>}

\* JSON.parse(currentData) succeeds: the data is one of the JSON texts of the response
JsonParses(data) == \E k \in 1..Len(SseEvents) : SseEvents[k].data = data

\* String.prototype.split('\n')
RECURSIVE split(_)
split(s) ==
    IF \A k \in 1..Len(s) : s[k] # LF
    THEN <<s>>
    ELSE LET i == Min({k \in 1..Len(s) : s[k] = LF})
         IN  <<SubSeq(s, 1, i - 1)>> \o split(SubSeq(s, i + 1, Len(s)))

\* String.prototype.startsWith
startsWith(line, prefix) ==
    Len(line) >= Len(prefix) /\ SubSeq(line, 1, Len(prefix)) = prefix

\* String.prototype.slice(n)
slice(line, n) == SubSeq(line, n + 1, Len(line))

\* the `for (const line of lines)` of processStream; null and '' are both <<>>.
\* called collects the callbacks invoked, in order.
RECURSIVE forLines(_, _, _, _)
forLines(lines, currentEvent, currentData, called) ==
    IF lines = <<>> THEN called
    ELSE LET line == Head(lines)
         IN  IF startsWith(line, EventPrefix)
             THEN forLines(Tail(lines), trim(slice(line, Len(EventPrefix))), currentData, called)
             ELSE IF startsWith(line, DataPrefix)
             THEN forLines(Tail(lines), currentEvent, trim(slice(line, Len(DataPrefix))), called)
             ELSE IF line = <<>> /\ currentEvent # <<>> /\ currentData # <<>>
             THEN forLines(Tail(lines), <<>>, <<>>,
                           IF JsonParses(currentData) /\ currentEvent \in KnownEvents
                           THEN Append(called, [event |-> currentEvent, data |-> currentData])
                           ELSE called)
             ELSE forLines(Tail(lines), currentEvent, currentData, called)

\* one iteration of the while loop of processStream on a chunk that reader.read()
\* returned: `let currentEvent = null; let currentData = ''` are declared inside the loop
onRead(R, chunk) ==
    LET lines == split(R.buffer \o chunk)
    IN  [R EXCEPT !.pos = @ + Len(chunk),
                  !.buffer = lines[Len(lines)],
                  !.called = forLines(SubSeq(lines, 1, Len(lines) - 1), <<>>, <<>>, @)]

\* the reader before the first read(): pos is the number of bytes of the body that
\* read() has returned, called (history) the callbacks invoked
Reader == [pos |-> 0, buffer |-> <<>>, done |-> FALSE, called |-> <<>>]

\* this.minCaptureInterval
minCaptureInterval == 4000

\* the App constructor.  now is Date.now(), which is far beyond minCaptureInterval at
\* construction: the clock starts at the least such value.  phase is where an accepted
\* captureAndAnalyze stands: idle, awaiting camera.capture ("capture"), or awaiting
\* the conversion of the image, before fetch ("convert").  requestAt (history) is the
\* time fetch was last called (-1: never), tooSoon (history) tells whether fetch was
\* ever called less than minCaptureInterval after the call before.
App ==
    [isProcessing |-> FALSE, stream |-> "none", received |-> 0, warnings |-> 0,
     lastCaptureTime |-> 0, now |-> minCaptureInterval, phase |-> "idle",
     requestAt |-> -1, tooSoon |-> FALSE, sse |-> Reader]

Init ==
    /\ buffer = <<>>
    /\ \E v \in BOOLEAN : tts = TTSQueue(v)
    /\ app = App
    /\ input = <<>>
    /\ out = <<>>
    /\ flushOut = <<>>
    /\ last = Other

NextTTS ==
    \/ Enqueue
    \/ Stop
    \/ ClearQueue
    \/ UnlockAudio
    \/ UtteranceStart
    \/ UtteranceEnd
    \/ UtteranceError
    \/ CancelledEvent
    \/ VoiceWaitTimeout
    \/ VoicesChanged
    \/ VoicesFallbackTimeout
    \/ PlatformPause
    \/ ResumePoll

SpecTTS == Init /\ [][NextTTS]_vars

\* the platform begins, or ceases, to throw from synth.speak
PlatformThrows ==
    /\ tts' = [tts EXCEPT !.throws = ~@]
    /\ last' = Other
    /\ UNCHANGED <<buffer, app, input, out, flushOut>>

NextTTSThrow ==
    \/ Enqueue
    \/ Stop
    \/ ClearQueue
    \/ UnlockAudio
    \/ UtteranceStart
    \/ UtteranceEnd
    \/ UtteranceError
    \/ CancelledEvent
    \/ VoiceWaitTimeout
    \/ VoicesChanged
    \/ VoicesFallbackTimeout
    \/ PlatformPause
    \/ ResumePoll
    \/ PlatformThrows

\* the scheduler on a platform whose synth.speak may throw
SpecTTSThrow == Init /\ [][NextTTSThrow]_vars

SpecTTSFair ==
    /\ SpecTTS
    /\ WF_vars(UtteranceEnd \/ UtteranceError)
    /\ WF_vars(CancelledEvent)
    /\ WF_vars(VoiceWaitTimeout)

(***************************************************************************)
(* The segmenter alone, driven by an arbitrary caller.                     *)
(***************************************************************************)
Alphabet == {"a", ".", "!", " "}

\* "Ahead. Turn " and "left at the corner."
ExampleChunks ==
    <<
       <<"A", "h", "e", "a", "d", ".", " ", "T", "u", "r", "n", " ">>,
       <<"l", "e", "f", "t", " ", "a", "t", " ", "t", "h", "e", " ", "c", "o", "r",
       "n", "e", "r", ".">>
    >>

\* the chunks the caller hands to addChunk: every string over Alphabet up to MaxChunk
\* characters, a value that is no string, and the two chunks of the example
Chunks ==
    {Str(c) : c \in UNION {[1..n -> Alphabet] : n \in 0..MaxChunk}}
        \cup {NotAString, Str(ExampleChunks[1]), Str(ExampleChunks[2])}

\* history: x, or the empty sequence when the last flush() emitted and the next
\* addChunk therefore starts a new input
Epoch(x) == IF flushOut # <<>> THEN <<>> ELSE x

\* the input stays within MaxInput, or is the example
Fits(chunk) ==
    \/ Len(Epoch(input)) + Len(chunk.str) <= MaxInput
    \/ Epoch(input) = <<>> /\ chunk.str = ExampleChunks[1]
    \/ Epoch(input) = ExampleChunks[1] /\ chunk.str = ExampleChunks[2]

\* history: -1 for a chunk that is no string, 0 for "", 1 for a white-space-only
\* chunk, 2 for any other
ChunkClass(chunk) ==
    IF chunk.type # "string" THEN -1
    ELSE IF chunk.str = <<>> THEN 0
    ELSE IF trim(chunk.str) = <<>> THEN 1
    ELSE 2

\* history: what `last` records of an addChunk call: the class of its chunk, or 3 when
\* the call handed two or more sentences to onSentence
AddChunkOf(chunk, sentences) ==
    Handler("addChunk", IF Len(sentences) >= 2 THEN 3 ELSE ChunkClass(chunk))

AddChunk ==
    \E chunk \in Chunks :
        /\ Fits(chunk)
        /\ LET r == addChunk(buffer, chunk)
           IN  /\ buffer' = r.buffer
               /\ out' = Epoch(out) \o r.sentences
               /\ last' = AddChunkOf(chunk, r.sentences)
        /\ input' = Epoch(input) \o chunk.str
        /\ flushOut' = <<>>
        /\ UNCHANGED <<tts, app>>

\* flush(); arg counts it among the flush() calls in a row, up to 2
Flush ==
    /\ LET r == flush(buffer)
       IN  /\ buffer' = r.buffer
           /\ flushOut' = flushOut \o r.sentences
    /\ last' = Handler("flush", IF last.op = "flush" THEN 2 ELSE 1)
    /\ UNCHANGED <<tts, app, input, out>>

\* reset(); arg tells whether the buffer held text (1) or was empty (0)
Reset ==
    /\ LET r == reset(buffer)
       IN  /\ buffer' = r.buffer
           /\ out' = r.sentences
    /\ input' = <<>>
    /\ flushOut' = <<>>
    /\ last' = Handler("reset", IF buffer # <<>> THEN 1 ELSE 0)
    /\ UNCHANGED <<tts, app>>

NextSeg ==
    \/ AddChunk
    \/ Flush
    \/ Reset

\* the scheduler takes no part: one platform is enough
InitSeg == Init /\ tts.voicesLoaded

SpecSeg == InitSeg /\ [][NextSeg]_vars

(***************************************************************************)
(* App: the sentence buffer wired into the queue, and the handlers of      *)
(* captureAndAnalyze's stream callbacks, on a platform that has its voices *)
(* at construction and does not pause the speech service on its own (the   *)
(* voice wait, the pause and the resume poll are part of the scheduler's   *)
(* own specification above).                                               *)
(***************************************************************************)
\* this.sentenceBuffer.onSentence = (sentence) => this.ttsQueue.enqueue(sentence),
\* run by the forEach of addChunk() and by flush()
RECURSIVE onSentence(_, _)
onSentence(T, sentences) ==
    IF sentences = <<>> THEN T
    ELSE onSentence(enqueue(T, Str(Head(sentences))), Tail(sentences))

\* `Warning: ${data.text || 'Hazard detected'}`
WarningPrefix == <<"W", "a", "r", "n", "i", "n", "g", ":", " ">>

HazardDetected == <<"H", "a", "z", "a", "r", "d">>

warningOf(text) == WarningPrefix \o (IF text = <<>> THEN HazardDetected ELSE text)

\* the items speak() holds back: dequeued, waiting for the unlock promise or for the
\* 500 ms voice-wait timer
Waiting(T) ==
    {T.timers[k].id : k \in 1..Len(T.timers)}
        \cup {u.item.id : u \in {v \in T.cancelled : v.then = "speak"}}
        \cup {T.pending[k].item.id :
                  k \in {j \in 1..Len(T.pending) : T.pending[j].then = "speak"}}

\* this.ttsQueue.stop(), of the pair stop(); reset() that every interruption runs.
\* stale (history) collects the items that speak() held back at that point.
stopAndReset(T) == [stop(T) EXCEPT !.stale = @ \cup Waiting(T)]

\* the chunk events of one analysis stream, in the order the server sends them: a
\* sentence, an event without text, a sentence and the start of the next one, its end
\* and an unfinished sentence
StreamChunks ==
    << <<"a", ".", " ">>, <<>>, <<"b", ".", " ", "c">>, <<"!", " ", "d">> >>

\* data.text of a hazard event, by the number of chunk events sent before it:
\* some hazard events carry no text
StreamHazards ==
    << <<>>, <<"c", "a", "r">>, <<>>, <<"c", "a", "r">>, <<>> >>

\* history: the onHazard handler ran in state T; arg is the number of items that were
\* queued behind a speaking utterance (-1: no utterance was speaking)
HazardOf(T) == Handler("onHazard", IF Speaking(T) THEN Len(T.queue) ELSE -1)

Streaming == app.stream \in {"open", "complete"}

\* the run may still enqueue n sentences
SentencesLeft(n) == (tts.nextId - 1 - app.warnings) + n <= MaxSentences

\* captureAndAnalyze, accepted: stop any ongoing speech, clear the buffer, open the stream
CaptureAndAnalyze ==
    /\ ~app.isProcessing
    /\ tts' = stopAndReset(tts)
    /\ buffer' = reset(buffer).buffer
    /\ app' = [app EXCEPT !.isProcessing = TRUE, !.stream = "open", !.received = 0]
    /\ last' = Other
    /\ UNCHANGED <<input, out, flushOut>>

\* stopCamera: abort the stream, stop the speech, clear the buffer
StopCamera ==
    /\ tts' = stopAndReset(tts)
    /\ buffer' = reset(buffer).buffer
    /\ app' = [app EXCEPT !.stream = "none", !.received = 0]
    /\ last' = Other
    /\ UNCHANGED <<input, out, flushOut>>

\* onChunk, for the next chunk event of the stream
OnChunk ==
    /\ app.stream = "open" /\ app.received < Len(StreamChunks)
    /\ LET chunkText == StreamChunks[app.received + 1]
           r == IF chunkText # <<>> THEN addChunk(buffer, Str(chunkText))
                ELSE [buffer |-> buffer, sentences |-> <<>>]
       IN  /\ SentencesLeft(Len(r.sentences))
           /\ buffer' = r.buffer
           /\ tts' = onSentence(tts, r.sentences)
    /\ app' = [app EXCEPT !.received = @ + 1]
    /\ last' = Handler("onChunk", 0)
    /\ UNCHANGED <<input, out, flushOut>>

\* onHazard
OnHazard ==
    /\ app.stream = "open"
    /\ app.warnings < MaxWarnings
    /\ LET text == StreamHazards[app.received + 1]
       IN  tts' = enqueue(stopAndReset(tts), Str(warningOf(text)))
    /\ buffer' = reset(buffer).buffer
    /\ app' = [app EXCEPT !.warnings = @ + 1]
    /\ last' = HazardOf(tts)
    /\ UNCHANGED <<input, out, flushOut>>

\* onComplete
OnComplete ==
    /\ app.stream = "open"
    /\ LET r == flush(buffer)
       IN  /\ SentencesLeft(Len(r.sentences))
           /\ buffer' = r.buffer
           /\ tts' = onSentence(tts, r.sentences)
    /\ app' = [app EXCEPT !.stream = "complete", !.received = 0]
    /\ last' = Handler("onComplete", 0)
    /\ UNCHANGED <<input, out, flushOut>>

\* onDone
OnDone ==
    /\ app.stream = "complete"
    /\ LET r == flush(buffer)
       IN  /\ SentencesLeft(Len(r.sentences))
           /\ buffer' = r.buffer
           /\ tts' = onSentence(tts, r.sentences)
    /\ app' = [app EXCEPT !.isProcessing = FALSE, !.stream = "none", !.received = 0]
    /\ last' = Handler("onDone", 0)
    /\ UNCHANGED <<input, out, flushOut>>

\* history: onError ran in scheduler state T on buffer buf; arg is the number of items
\* that were queued behind a speaking utterance while text was buffered (-1: no
\* utterance was speaking, or no text was buffered)
StreamErrorOf(T, buf) ==
    Handler("onError", IF Speaking(T) /\ buf # <<>> THEN Len(T.queue) ELSE -1)

\* onError: an error event of the stream, or the request or the read failing
OnError ==
    /\ Streaming
    /\ tts' = stopAndReset(tts)
    /\ buffer' = reset(buffer).buffer
    /\ app' = [app EXCEPT !.isProcessing = FALSE, !.stream = "none", !.received = 0]
    /\ last' = StreamErrorOf(tts, buffer)
    /\ UNCHANGED <<input, out, flushOut>>

\* the server closes the stream: reader.read() reports done and processStream returns
StreamClosed ==
    /\ Streaming
    /\ app' = [app EXCEPT !.stream = "none", !.received = 0]
    /\ last' = Other
    /\ UNCHANGED <<buffer, tts, input, out, flushOut>>

Next ==
    \/ CaptureAndAnalyze
    \/ StopCamera
    \/ OnChunk
    \/ OnHazard
    \/ OnComplete
    \/ OnDone
    \/ OnError
    \/ StreamClosed
    \/ UtteranceStart
    \/ UtteranceEnd
    \/ UtteranceError
    \/ CancelledEvent

\* the voices are there when the queue is constructed (loadVoices line 39); the
\* voice wait of speak() is part of the scheduler's own specification above
Spec == InitSeg /\ [][Next]_vars

(***************************************************************************)
(* App: captureAndAnalyze step by step, with the clock.  The handler runs   *)
(* up to its first await when the button is clicked, goes on when          *)
(* camera.capture settles, and calls fetch when the image is converted.    *)
(* The camera is active throughout.                                        *)
(***************************************************************************)
\* a throttle that lets every click pass
throttled_never(now, lastCaptureTime) == FALSE

\* timeSinceLastCapture < this.minCaptureInterval
throttled(now, lastCaptureTime) == now - lastCaptureTime < minCaptureInterval

\* Date.now() advances
Tick ==
    /\ app.now + TickMs <= MaxTime
    /\ app' = [app EXCEPT !.now = @ + TickMs]
    /\ last' = Other
    /\ UNCHANGED <<buffer, tts, input, out, flushOut>>

\* a click on the capture button: captureAndAnalyze up to `await camera.capture`.
\* arg: 0 rejected for isProcessing, 1 rejected by the throttle, 2 accepted
Click ==
    \/ /\ app.isProcessing
       /\ last' = Handler("click", 0)
       /\ UNCHANGED <<buffer, tts, app, input, out, flushOut>>
    \/ /\ ~app.isProcessing
       /\ throttled(app.now, app.lastCaptureTime)
       /\ last' = Handler("click", 1)
       /\ UNCHANGED <<buffer, tts, app, input, out, flushOut>>
    \/ /\ ~app.isProcessing
       /\ ~throttled(app.now, app.lastCaptureTime)
       /\ tts' = stopAndReset(tts)
       /\ buffer' = reset(buffer).buffer
       /\ app' = [app EXCEPT !.isProcessing = TRUE, !.phase = "capture"]
       /\ last' = Handler("click", 2)
       /\ UNCHANGED <<input, out, flushOut>>

\* camera.capture resolves: this.lastCaptureTime = Date.now(), and analyzeImageStream
\* begins to convert the image
Captured ==
    /\ app.phase = "capture"
    /\ app' = [app EXCEPT !.lastCaptureTime = app.now, !.phase = "convert"]
    /\ last' = Handler("captured", 0)
    /\ UNCHANGED <<buffer, tts, input, out, flushOut>>

\* camera.capture rejects: the catch of captureAndAnalyze
CaptureFailed ==
    /\ app.phase = "capture"
    /\ tts' = stopAndReset(tts)
    /\ buffer' = reset(buffer).buffer
    /\ app' = [app EXCEPT !.isProcessing = FALSE, !.phase = "idle"]
    /\ last' = Other
    /\ UNCHANGED <<input, out, flushOut>>

\* the image is converted: analyzeImageStream calls fetch, and the stream opens
RequestSent ==
    /\ app.phase = "convert"
    /\ app' = [app EXCEPT !.phase = "idle",
                          !.stream = "open",
                          !.received = 0,
                          !.requestAt = app.now,
                          !.tooSoon = @ \/ (/\ app.requestAt >= 0
                                            /\ app.now - app.requestAt < minCaptureInterval)]
    /\ last' = Handler("request", 0)
    /\ UNCHANGED <<buffer, tts, input, out, flushOut>>

NextCapture ==
    \/ Tick
    \/ Click
    \/ Captured
    \/ CaptureFailed
    \/ RequestSent
    \/ OnChunk
    \/ OnComplete
    \/ OnDone
    \/ OnError
    \/ StopCamera
    \/ StreamClosed

SpecCapture == Init /\ [][NextCapture]_vars

\* what is still to come for an accepted captureAndAnalyze: a promise it awaits
\* settles, an event of its stream is delivered, or the stream ends.  Nothing else
\* assigns isProcessing = false.
AnalysisProgress ==
    \/ Captured
    \/ CaptureFailed
    \/ RequestSent
    \/ OnChunk
    \/ OnComplete
    \/ OnDone
    \/ OnError
    \/ StreamClosed

(***************************************************************************)
(* The read loop of analyzeImageStream over one response, whose bytes      *)
(* reader.read() returns in pieces of any size.                            *)
(***************************************************************************)
\* reader.read() returns the next n bytes of the body
Read ==
    /\ ~app.sse.done
    /\ \E n \in 1..(Len(SseBody) - app.sse.pos) :
          app' = [app EXCEPT !.sse = onRead(@, SubSeq(SseBody, app.sse.pos + 1, app.sse.pos + n))]
    /\ last' = Other
    /\ UNCHANGED <<buffer, tts, input, out, flushOut>>

\* reader.read() returns done: the loop breaks
ReadDone ==
    /\ ~app.sse.done
    /\ app.sse.pos = Len(SseBody)
    /\ app' = [app EXCEPT !.sse.done = TRUE]
    /\ last' = Other
    /\ UNCHANGED <<buffer, tts, input, out, flushOut>>

NextRead ==
    \/ Read
    \/ ReadDone

SpecRead == Init /\ [][NextRead]_vars

(***************************************************************************)
(* Properties of the scheduler.                                            *)
(***************************************************************************)
SeqToSet(q) == {q[k] : k \in 1..Len(q)}

\* the content utterances live on the platform: handed to synth.speak and not yet
\* ended, errored or cancelled
LiveContent == {u \in SeqToSet(tts.pending) : u.kind = "content"}

SpokenIds == {tts.spoken[k].id : k \in 1..Len(tts.spoken)}

QueuedIds == {tts.queue[k].id : k \in 1..Len(tts.queue)}

\* C1: in every reachable state at most one content utterance created by speak()
\* is live on the platform speech service.
C1_NoOverlappingSpeech == Cardinality(LiveContent) <= 1

\* C1 witness: with no stop() ever called, a second content utterance was handed to
\* the platform while an earlier one was live, and it is the only live one.
C1_Witness ==
    /\ ~tts.interrupted
    /\ tts.owed > 0
    /\ Cardinality(LiveContent) = 1

\* C2 (as claimed): as long as neither stop() nor clearQueue() has been called, the
\* items passed to synth.speak are, in order, the first items enqueued, each with the
\* trimmed text of its enqueue call.
C2_FifoOrder ==
    ~tts.interrupted =>
        \A k \in 1..Len(tts.spoken) :
            tts.spoken[k] = [id |-> k, text |-> trim(Speakable(k))]

\* C4: when the error event of a content utterance runs and the queue is not empty,
\* the item at the head of the queue is passed to synth.speak in that same step; and
\* every enqueued item is eventually passed to synth.speak or discarded by
\* stop()/clearQueue().
C4_ErrorResilience ==
    /\ [][(last'.op = "error" /\ Len(tts.queue) > 0) =>
             /\ tts'.spoken = Append(tts.spoken, Head(tts.queue))
             /\ tts'.queue = Tail(tts.queue)]_vars
    /\ \A i \in 1..MaxItems :
          (tts.nextId > i) ~> (i \in SpokenIds \/ i \in tts.discarded)

\* C4 witness: the error event of a content utterance has just run with an item
\* queued behind it, and that item is the last one passed to synth.speak.
C4_Witness ==
    /\ last.op = "error" /\ last.arg # 0
    /\ Len(tts.spoken) >= 2
    /\ tts.spoken[Len(tts.spoken)].id = last.arg


\* the item an enqueue call of the caller makes of its n-th speakable text
ItemOf(n) == [id |-> n, text |-> <<Letters[n]>>]

\* speak(item) has taken the item in this step: it has passed it to synth.speak, or
\* holds it back for the unlock promise or for the voice-wait timer
TakenBySpeak(item) ==
    \/ tts'.spoken = Append(tts.spoken, item)
    \/ tts'.timers = Append(tts.timers, item)
    \/ tts'.pending = Append(tts.pending, UnlockUtterance(item, 0, "speak"))

\* C16: enqueue of an empty, white-space-only or non-string text changes nothing;
\* enqueue of any other text appends the text without the white space at its ends to
\* the tail of the queue and, if isSpeaking is false, has the head of the queue taken
\* by speak() in the same call; and every queued item is a non-empty text with no
\* white space at its ends.
C16_Enqueue ==
    /\ [][last'.op = "enqueue" =>
             IF last'.arg = 0
             THEN tts' = tts
             ELSE LET q == Append(tts.queue, ItemOf(tts.nextId))
                  IN  IF tts.isSpeaking
                      THEN tts' = [tts EXCEPT !.queue = q, !.nextId = @ + 1]
                      ELSE /\ tts'.queue = Tail(q)
                           /\ TakenBySpeak(Head(q))
                           /\ ~tts'.isSpeaking]_vars
    /\ [](\A k \in 1..Len(tts.queue) :
             LET text == tts.queue[k].text
             IN  text # <<>> /\ ~IsSpace(text[1]) /\ ~IsSpace(text[Len(text)]))

\* C16 witness: enqueue(" a ") has just run on an idle scheduler whose audio is
\* unlocked and whose voices are loaded, and "a" has been passed to synth.speak.
C16_Witness ==
    /\ last = Handler("enqueue", 1)
    /\ tts.spoken = <<ItemOf(1)>>
    /\ tts.queue = <<>>

\* C17: enqueue of a speakable text while isSpeaking is true appends the item to the
\* tail of the queue and does nothing else: nothing is passed to synth.speak, nothing
\* is cancelled on the platform, and isSpeaking and currentUtterance stay as they are.
C17_EnqueueWhileSpeaking ==
    [][(last'.op = "enqueue" /\ last'.arg = 1 /\ tts.isSpeaking) =>
          /\ tts'.queue = Append(tts.queue, ItemOf(tts.nextId))
          /\ tts'.spoken = tts.spoken
          /\ tts'.pending = tts.pending
          /\ tts'.cancelled = tts.cancelled /\ tts'.owed = tts.owed
          /\ tts'.timers = tts.timers
          /\ tts'.isSpeaking /\ tts'.currentUtterance = tts.currentUtterance]_vars

\* C17 witness: enqueue has just appended a second item behind a queued one while the
\* first utterance is being spoken.
C17_Witness ==
    /\ last = Handler("enqueue", 1)
    /\ Speaking(tts) /\ tts.currentUtterance = 1
    /\ tts.spoken = <<ItemOf(1)>>
    /\ tts.queue = <<ItemOf(2), ItemOf(3)>>

\* C18: after stop(), from any state, the queue is empty, isSpeaking is false and
\* currentUtterance is null; synth.cancel() has removed every utterance from the
\* platform (the end or error event of each is still owed); the platform is not
\* paused; audioUnlocked and voicesLoaded are as they were.
C18_Stop ==
    [][last'.op = "stop" =>
          /\ tts'.queue = <<>>
          /\ ~tts'.isSpeaking
          /\ tts'.currentUtterance = 0
          /\ tts'.pending = <<>>
          /\ tts'.owed = tts.owed + Cardinality(LiveContent)
          /\ tts'.cancelled =
                 tts.cancelled \cup {u \in SeqToSet(tts.pending) : u.kind = "unlock"}
          /\ ~tts'.paused
          /\ tts'.audioUnlocked = tts.audioUnlocked
          /\ tts'.voicesLoaded = tts.voicesLoaded]_vars

\* C18 witness: stop() has just run while the platform was paused, an utterance was
\* live on it and an item was queued.
C18_Witness ==
    /\ last = Handler("stop", 1)
    /\ tts.owed > 0
    /\ tts.discarded # {}
    /\ tts.pending = <<>> /\ tts.queue = <<>> /\ ~tts.paused

\* the caller has called neither enqueue (with a speakable text) nor stop() since a
\* clearQueue() that ran while an utterance was being spoken
QuietSinceClear == tts.cleared # NoClear /\ tts.nextId = tts.cleared.next

\* C19 (as claimed): clearQueue() empties the queue and changes nothing else: not
\* isSpeaking, not currentUtterance, nothing on the platform; and if an utterance was
\* being spoken, then, as long as the caller calls neither enqueue nor stop(), that
\* utterance stays the last text passed to synth.speak, it is not cancelled, and once
\* it has ended or failed the scheduler is idle.
C19_ClearQueue ==
    /\ [][last'.op = "clearQueue" =>
             /\ tts'.queue = <<>>
             /\ tts'.isSpeaking = tts.isSpeaking
             /\ tts'.currentUtterance = tts.currentUtterance
             /\ tts'.pending = tts.pending
             /\ tts'.cancelled = tts.cancelled /\ tts'.owed = tts.owed
             /\ tts'.paused = tts.paused /\ tts'.timers = tts.timers
             /\ tts'.spoken = tts.spoken
             /\ tts'.audioUnlocked = tts.audioUnlocked
             /\ tts'.voicesLoaded = tts.voicesLoaded]_vars
    /\ [](QuietSinceClear =>
             /\ tts.spoken[Len(tts.spoken)].id = tts.cleared.n
             /\ \/ /\ Len(tts.pending) > 0
                   /\ Head(tts.pending) =
                         [ContentUtterance(tts.spoken[Len(tts.spoken)]) EXCEPT !.started = TRUE]
                \/ LiveContent = {} /\ ~tts.isSpeaking)

\* C20 (as claimed): at most one placeholder utterance is ever handed to the
\* platform; a call of unlockAudio() made after an earlier call, by the caller or by
\* speak(), hands over none, whether or not the earlier placeholder has ended.
C20_UnlockOnce ==
    /\ [](tts.placeholders <= 1)
    /\ [][(last'.op = "unlockAudio" /\ tts.placeholders >= 1) =>
             tts'.pending = tts.pending]_vars

\* the placeholders whose end or error event has not run yet
OpenPlaceholders ==
    Cardinality({k \in 1..Len(tts.pending) : tts.pending[k].kind = "unlock"})
        + Cardinality(tts.cancelled)

\* C21: the promise of every placeholder whose end or error event has run is
\* resolved (none stays pending, none is rejected); audioUnlocked is true from the
\* first resolution on; and when the error event of a placeholder runs, audioUnlocked
\* is true afterwards and the item speak() held back for it is taken up by speak().
C21_UnlockResolves ==
    /\ [](tts.resolved + OpenPlaceholders = tts.placeholders)
    /\ [](tts.resolved > 0 => tts.audioUnlocked)
    /\ [][last'.op = "unlockError" =>
             /\ tts'.audioUnlocked
             /\ tts'.resolved = tts.resolved + 1
             /\ last'.arg # 0 =>
                    \/ last'.arg \in {tts'.spoken[k].id : k \in 1..Len(tts'.spoken)}
                           \ SpokenIds
                    \/ last'.arg \in {tts'.timers[k].id : k \in 1..Len(tts'.timers)}]_vars

\* C21 witness: the placeholder that speak() spoke for the first item has failed; the
\* promise is resolved, audioUnlocked is true and the item has been passed to
\* synth.speak.
C21_Witness ==
    /\ last = Handler("unlockError", 1)
    /\ tts.audioUnlocked
    /\ tts.resolved = 1 /\ tts.placeholders = 1
    /\ tts.spoken = <<ItemOf(1)>>

\* C22: no step, whether a call of the caller, an event of an utterance or a timer,
\* takes audioUnlocked or voicesLoaded from true to false.
C22_FlagsMonotone ==
    [][/\ tts.audioUnlocked => tts'.audioUnlocked
       /\ tts.voicesLoaded => tts'.voicesLoaded]_vars

\* C22 witness: on a platform whose voices were not loaded at construction, both
\* flags are true after an item was passed to synth.speak and stop() has just run.
C22_Witness ==
    /\ last.op = "stop"
    /\ tts.fallback
    /\ tts.audioUnlocked /\ tts.voicesLoaded
    /\ tts.spoken # <<>>

\* C23: no item is passed to synth.speak twice; an item that was passed to
\* synth.speak, whether its utterance ended, failed or was cancelled, is neither in
\* the queue nor held back by speak() afterwards; and an item on which speak() threw
\* is neither passed to synth.speak, nor in the queue, nor held back afterwards.
C23_FireOnce ==
    /\ \A i, j \in 1..Len(tts.spoken) : i # j => tts.spoken[i].id # tts.spoken[j].id
    /\ SpokenIds \cap (QueuedIds \cup Waiting(tts)) = {}
    /\ tts.failed \cap (SpokenIds \cup QueuedIds \cup Waiting(tts)) = {}

\* C23 witness: speak() threw on the first item; the utterance of the second has just
\* failed, and the third, queued behind it, was passed to synth.speak.
C23_Witness ==
    /\ last = Handler("error", 3)
    /\ tts.failed = {1}
    /\ tts.spoken = <<ItemOf(2), ItemOf(3)>>
    /\ tts.queue = <<>>

(***************************************************************************)
(* Properties of the application.                                          *)
(***************************************************************************)
\* the item onHazard enqueues in the current state, for the hazard text of the
\* current stream position
WarningItem == [id |-> tts.nextId, text |-> warningOf(StreamHazards[app.received + 1])]

\* C3: when onHazard runs while an utterance is speaking, that utterance is removed
\* from the platform by synth.cancel(), every queued item is discarded, the sentence
\* buffer is empty afterwards, and the warning is passed to synth.speak in that same
\* step, as the next text after those spoken before; a discarded item is never
\* passed to synth.speak.
C3_HazardPreemption ==
    /\ [][(last'.op = "onHazard" /\ Speaking(tts)) =>
             /\ tts'.owed = tts.owed + 1
             /\ tts'.pending = <<ContentUtterance(WarningItem)>>
             /\ QueuedIds \subseteq tts'.discarded
             /\ tts'.queue = <<>>
             /\ buffer' = <<>>
             /\ tts'.spoken = Append(tts.spoken, WarningItem)]_vars
    /\ [](tts.discarded \cap SpokenIds = {})

\* C3 witness: onHazard has just run, after the last chunk event of the stream, while
\* one utterance was speaking, two items were queued behind it and text was pending
\* in the sentence buffer; the warning is the last item passed to synth.speak and the
\* two items are discarded.
C3_Witness ==
    /\ last = Handler("onHazard", 2)
    /\ Len(tts.spoken) = 2
    /\ tts.spoken[2].text = warningOf(<<>>)
    /\ Cardinality(tts.discarded) = 2
    /\ buffer = <<>>

\* C5 (as claimed): an item that was enqueued before a stop() + reset(), whether it
\* was still queued or already dequeued and held back by speak(), is never passed to
\* synth.speak afterwards.
C5_NoStaleSpeech == (tts.discarded \cup tts.stale) \cap SpokenIds = {}

\* the items the scheduler knows of: queued, passed to synth.speak, or held back by
\* speak()
ItemsOf(T) ==
    SeqToSet(T.queue) \cup SeqToSet(T.spoken) \cup SeqToSet(T.timers)
        \cup {u.item : u \in {v \in SeqToSet(T.pending) \cup T.cancelled : v.then = "speak"}}

\* C24: onComplete enqueues the text left in the sentence buffer, without the white
\* space at its ends, as one new item and leaves the buffer empty (it enqueues
\* nothing and leaves the scheduler alone if the buffer holds no text); the onDone
\* that follows finds no text in the buffer, enqueues nothing and changes neither
\* the scheduler nor the buffer.
C24_FlushOnCompleteAndDone ==
    /\ [][last'.op = "onComplete" =>
             IF \E k \in 1..Len(buffer) : ~IsSpace(buffer[k])
             THEN /\ tts'.nextId = tts.nextId + 1
                  /\ \E it \in ItemsOf(tts') :
                         it.id = tts.nextId /\ IsTrimOf(it.text, buffer)
                  /\ buffer' = <<>>
             ELSE tts' = tts /\ buffer' = buffer]_vars
    /\ [][last'.op = "onDone" =>
             (trim(buffer) = <<>> /\ tts' = tts /\ buffer' = buffer)]_vars

\* C24 witness: the stream has delivered "a. " and "b. c", onComplete has enqueued
\* the unfinished sentence "c" as the third item, and onDone has just run.
C24_Witness ==
    /\ last = Handler("onDone", 0)
    /\ tts.nextId = 4
    /\ [id |-> 3, text |-> <<"c">>] \in ItemsOf(tts)
    /\ buffer = <<>>
    /\ ~app.isProcessing

\* C25: after onError, whatever was buffered, queued or being spoken before, the
\* sentence buffer is empty, the queue is empty, isSpeaking is false, currentUtterance
\* is null, nothing is left on the platform, and isProcessing is false.
C25_StreamError ==
    [][last'.op = "onError" =>
          /\ buffer' = <<>>
          /\ tts'.queue = <<>>
          /\ ~tts'.isSpeaking /\ tts'.currentUtterance = 0
          /\ tts'.pending = <<>>
          /\ ~app'.isProcessing]_vars

\* C25 witness: onError has just run while an utterance was being spoken, two items
\* were queued behind it and text was pending in the sentence buffer.
C25_Witness ==
    /\ last = Handler("onError", 2)
    /\ Cardinality(tts.discarded) >= 2
    /\ buffer = <<>> /\ tts.queue = <<>>
    /\ ~app.isProcessing

LiveIds(T) ==
    {T.pending[k].item.id : k \in {j \in 1..Len(T.pending) : T.pending[j].kind = "content"}}

\* C27 (as claimed, for the speak() calls that enqueue and a late end callback make):
\* speak() never cancels a live content utterance, so a content utterance that is
\* pending or speaking on the platform before the call is still there after it.
C27_SpeakCancelsNothing ==
    [][last'.op \in {"enqueue", "lateEnd"} => LiveIds(tts) \subseteq LiveIds(tts')]_vars

\* the items processQueue() has popped whose utterance has neither ended nor errored
\* nor been cancelled: held back by speak(), or live on the platform
InFlight(T) == Waiting(T) \cup LiveIds(T)

\* C29 (as claimed, for a run without stop() and clearQueue()): while an item that
\* processQueue popped is held by speak() or live on the platform, isSpeaking is
\* true, and no second item is popped.
C29_SpeakingFromDequeue ==
    ~tts.interrupted =>
        /\ InFlight(tts) # {} => tts.isSpeaking
        /\ Cardinality(InFlight(tts)) <= 1

\* the content utterances that have started and not yet ended or errored
StartedIds(T) ==
    {T.pending[k].item.id :
         k \in {j \in 1..Len(T.pending) :
                   T.pending[j].kind = "content" /\ T.pending[j].started}}

\* C30 (as claimed): isSpeaking is true whenever a content utterance has started and
\* not yet ended or errored, and the late end callback of a cancelled utterance leaves
\* such an utterance on the platform.
C30_LateCallback ==
    /\ [](StartedIds(tts) # {} => tts.isSpeaking)
    /\ [][last'.op = "lateEnd" => StartedIds(tts) \subseteq LiveIds(tts')]_vars

\* the item is a hazard warning
IsWarning(item) ==
    /\ Len(item.text) >= Len(WarningPrefix)
    /\ SubSeq(item.text, 1, Len(WarningPrefix)) = WarningPrefix

\* the ids of the warnings whose utterance is live on the platform
LiveWarnings(T) ==
    {T.pending[k].item.id :
         k \in {j \in 1..Len(T.pending) :
                   T.pending[j].kind = "content" /\ IsWarning(T.pending[j].item)}}

\* C28 (as claimed): a chunk, complete or done event of the stream does not remove
\* the utterance of a warning from the platform.
C28_WarningNotCancelled ==
    [][last'.op \in {"onChunk", "onComplete", "onDone"} =>
          LiveWarnings(tts) \subseteq LiveWarnings(tts')]_vars

\* C32: the end or error callback of a content utterance, late or not, leaves
\* isSpeaking false and currentUtterance null; if the queue was not empty, exactly its
\* head item has been popped and handed to speak(), otherwise the queue is still empty
\* and no item has been handed to speak().
C32_EndThenNext ==
    [][last'.op \in {"end", "error", "lateEnd"} =>
          /\ ~tts'.isSpeaking /\ tts'.currentUtterance = 0
          /\ IF Len(tts.queue) > 0
             THEN /\ tts'.queue = Tail(tts.queue)
                  /\ InFlight(tts') \ InFlight(tts) = {Head(tts.queue).id}
             ELSE /\ tts'.queue = <<>>
                  /\ InFlight(tts') \subseteq InFlight(tts)]_vars

\* C32 witness: an utterance has just ended while the second item was queued behind
\* it, and the second item has been handed to synth.speak.
C32_Witness ==
    /\ last = Handler("end", 2)
    /\ ~tts.isSpeaking /\ tts.currentUtterance = 0
    /\ tts.queue = <<>>
    /\ LiveIds(tts) = {2}

\* the items speak() holds back for an unlock: the continuation of the promise of
\* their placeholder has not run yet
HeldForUnlock(T) ==
    {u.item.id : u \in {v \in T.cancelled : v.then = "speak"}}
        \cup {T.pending[k].item.id :
                  k \in {j \in 1..Len(T.pending) : T.pending[j].then = "speak"}}

\* the items speak() holds back on the 500 ms voice-wait timer
TimerIds(T) == {T.timers[k].id : k \in 1..Len(T.timers)}

\* no item was passed to synth.speak twice
SpokenOnce(T) ==
    \A j, k \in 1..Len(T.spoken) : T.spoken[j].id = T.spoken[k].id => j = k

\* C33: an item held back for the unlock has not been passed to synth.speak; it stays
\* held until its placeholder ends or errors, and then it is passed on by speak(): to
\* synth.speak, or to the voice wait when the voices are not loaded; no item is ever
\* passed to synth.speak twice.
C33_UnlockRetry ==
    /\ [](HeldForUnlock(tts) \cap SpokenIds = {})
    /\ [](SpokenOnce(tts))
    /\ [][\A id \in HeldForUnlock(tts) :
              \/ id \in HeldForUnlock(tts')
              \/ /\ tts'.audioUnlocked
                 /\ IF tts.voicesLoaded
                    THEN tts'.spoken \in {Append(tts.spoken, it) : it \in {i \in ItemsOf(tts') : i.id = id}}
                    ELSE id \in TimerIds(tts') \ TimerIds(tts)]_vars

\* C33 witness: two items were held back for the unlock at the same time, each behind
\* a placeholder of its own; both placeholders have settled and both items have been
\* passed to synth.speak, once each, with no stop() in between.
C33_Witness ==
    /\ ~tts.interrupted
    /\ tts.placeholders = 2 /\ tts.resolved = 2 /\ tts.directUnlocks = 0
    /\ Len(tts.spoken) = 2 /\ SpokenIds = {1, 2}
    /\ HeldForUnlock(tts) = {}

\* C34: the voice-wait timer of an item fires once: the item leaves the timers and is
\* passed to synth.speak in the same callback, whether or not the voices had loaded,
\* and voicesLoaded is true afterwards; an item on the timer has not been passed to
\* synth.speak before, and once voicesLoaded is true no item is put on a timer.
C34_VoiceWait ==
    /\ [](TimerIds(tts) \cap SpokenIds = {})
    /\ [][last'.op = "voiceWait" =>
             /\ tts.timers # <<>>
             /\ tts'.timers = Tail(tts.timers)
             /\ tts'.voicesLoaded
             /\ tts'.spoken = Append(tts.spoken, Head(tts.timers))
             /\ LiveIds(tts') = {Head(tts.timers).id}]_vars
    /\ [][tts.voicesLoaded => Len(tts'.timers) <= Len(tts.timers)]_vars

\* C34 witness: the timer has just fired while the voices were still not loaded, and
\* the item has been passed to synth.speak.
C34_Witness ==
    /\ last = Handler("voiceWait", 0)
    /\ tts.voicesLoaded
    /\ Len(tts.spoken) = 1
    /\ tts.timers = <<>>

\* the sentences emitted for a text handed over as one chunk: addChunk(s), then flush()
OneShot(s) ==
    LET r == addChunk(<<>>, Str(s))
    IN  r.sentences \o flush(r.buffer).sentences

\* C35: whenever flush() has run after the chunks of an input, the sentences emitted
\* by the addChunk calls followed by those of flush() are the sentences that one
\* addChunk of the concatenated input followed by flush() emits.
C35_ChunkingIndependent == last.op = "flush" => out \o flushOut = OneShot(input)

\* C35 witness: an input too long for one chunk has yielded a sentence from addChunk
\* and another from flush().
C35_Witness ==
    /\ last = Handler("flush", 1)
    /\ Len(input) > MaxChunk /\ Len(input) <= MaxInput
    /\ Len(out) >= 1
    /\ Len(flushOut) = 1

\* C36 (as claimed): when the whole response has been read, in pieces of whatever
\* size, the callbacks invoked are those of the events of the response, in order.
C36_SplitIndependent == app.sse.done => app.sse.called = SseEvents

\* C37: in every reachable state currentUtterance is non-null if and only if
\* isSpeaking is true.
C37_CurrentIffSpeaking == (tts.currentUtterance # 0) <=> tts.isSpeaking

\* C37 witness: after a stop() and after a synth.speak that threw, the third item
\* has started: isSpeaking is true and currentUtterance is its utterance.
C37_Witness ==
    /\ tts.isSpeaking /\ tts.currentUtterance = 3
    /\ tts.interrupted
    /\ tts.failed # {}

\* C38: in every reachable state, a tick of the resume poll leaves the queue,
\* isSpeaking and currentUtterance as they are; it resumes the engine if isSpeaking is
\* true and the engine is paused, and changes nothing otherwise.
C38_ResumePoll ==
    /\ [](LET T == resumePoll(tts)
          IN  /\ T.queue = tts.queue
              /\ T.isSpeaking = tts.isSpeaking
              /\ T.currentUtterance = tts.currentUtterance
              /\ IF tts.isSpeaking /\ tts.paused
                 THEN T = [tts EXCEPT !.paused = FALSE]
                 ELSE T = tts)
    /\ [][last'.op = "resumePoll" =>
             \/ UNCHANGED vars
             \/ /\ tts.isSpeaking /\ tts.paused
                /\ tts' = [tts EXCEPT !.paused = FALSE]]_vars

\* C38 witness: a tick has just resumed the engine, paused while an utterance was
\* being spoken with an item queued behind it; the item is still queued.
C38_Witness ==
    /\ last = Handler("resumePoll", 1)
    /\ tts.isSpeaking /\ ~tts.paused
    /\ Len(tts.queue) = 1
    /\ tts.currentUtterance = 1

\* C31 (as claimed): every analysis that set isProcessing to true has it reset to
\* false when it finishes, whichever way its stream ends: while isProcessing is true,
\* a step of the analysis that can lead to the reset is still to come.
C31_ProcessingEnds == app.isProcessing => ENABLED AnalysisProgress

(***************************************************************************)
(* Properties of the segmenter.                                            *)
(***************************************************************************)
\* the sentence boundaries of a text: the positions of a terminator that is followed
\* by white space (the last terminator of a run of them)
Boundaries(s) == {i \in 1..(Len(s) - 1) : IsTerm(s[i]) /\ IsSpace(s[i + 1])}

\* the k-th smallest element of a set of numbers
Nth(S, k) == CHOOSE x \in S : Cardinality({y \in S : y < x}) = k - 1

\* the text after the last boundary, or the whole text when there is none
AfterLastBoundary(s) ==
    IF Boundaries(s) = {} THEN s
    ELSE SubSeq(s, Max(Boundaries(s)) + 1, Len(s))

\* what flush() emits for a text e left to speak: e, or nothing when e is empty
Emission(e) == IF e = <<>> THEN <<>> ELSE <<e>>

\* C6: the number of sentences addChunk has emitted for an input is the number of
\* sentence boundaries in the concatenation of its chunks, and the first flush()
\* after them emits exactly the text after the last boundary without the white space
\* at its ends, or nothing if that is empty.
C6_NoFragmentLoss ==
    /\ [](Len(out) = Cardinality(Boundaries(input)))
    /\ [][(last'.op = "flush" /\ last.op # "flush") =>
             \E e \in {flushOut'[k] : k \in 1..Len(flushOut')} \cup {<<>>} :
                 /\ IsTrimOf(e, AfterLastBoundary(input))
                 /\ flushOut' = Emission(e)]_vars

\* C6 witness: two sentences were emitted by addChunk and flush() has emitted the
\* text after them.
C6_Witness ==
    /\ last.op = "flush"
    /\ Len(out) = 2
    /\ Len(flushOut) = 1

\* the k-th sentence of a text: what lies between the boundary before and the k-th
\* boundary, without the white space at its ends
Piece(s, k) ==
    LET from == IF k = 1 THEN 0 ELSE Nth(Boundaries(s), k - 1)
    IN  trim(SubSeq(s, from + 1, Nth(Boundaries(s), k)))

ExampleInput == ExampleChunks[1] \o ExampleChunks[2]

\* "Ahead." and "Turn left at the corner."
ExampleSentences ==
    <<
       <<"A", "h", "e", "a", "d", ".">>,
       <<"T", "u", "r", "n", " ", "l", "e", "f", "t", " ", "a", "t", " ", 
       "t", "h", "e", " ", "c", "o", "r", "n", "e", "r", ".">>
    >>

\* C7: the sentences addChunk has emitted are, one per boundary of the input, exactly
\* the texts up to each boundary, each ending with its terminator; the text after the last boundary
\* is what the buffer holds (up to white space at its ends) until flush() emits it;
\* and the two chunks of the example followed by flush() yield the two sentences of
\* the example.
C7_NoFragmentEmitted ==
    /\ Len(out) = Cardinality(Boundaries(input))
    /\ \A k \in 1..Len(out) : out[k] = Piece(input, k) /\ IsTerm(out[k][Len(out[k])])
    /\ flushOut = <<>> => IsTrimOf(trim(buffer), AfterLastBoundary(input))
    /\ (input = ExampleInput /\ last.op = "flush") => out \o flushOut = ExampleSentences

\* C7 witness: the two chunks of the example have been added and flush() has run.
C7_Witness ==
    /\ input = ExampleInput
    /\ last.op = "flush"
    /\ Len(out) = 1 /\ Len(flushOut) = 1

\* the chunk an addChunk step has added to the input
Added == SubSeq(input', Len(Epoch(input)) + 1, Len(input'))

\* C8 (as claimed): addChunk of "" and of a white-space-only string emits nothing and
\* leaves the buffer as it was.
C8_BlankChunkIgnored ==
    [][(last'.op = "addChunk" /\ last'.arg \in {0, 1}) =>
          /\ out' = Epoch(out)
          /\ buffer' = buffer]_vars

\* C8 (amended): addChunk of "" or of a value that is no string emits nothing and
\* leaves the buffer as it was.  addChunk of a white-space-only string appends it to
\* the buffer; if the buffer ended with a terminator, the buffer without the white
\* space at its ends is emitted as a sentence and the buffer is left empty; otherwise
\* nothing is emitted.
C8_BlankChunk ==
    [][(last'.op = "addChunk" /\ last'.arg <= 1) =>
          IF last'.arg <= 0
          THEN out' = Epoch(out) /\ buffer' = buffer
          ELSE IF buffer # <<>> /\ IsTerm(buffer[Len(buffer)])
          THEN /\ \E e \in {out'[Len(out')]} :
                      IsTrimOf(e, buffer) /\ out' = Append(Epoch(out), e)
               /\ buffer' = <<>>
          ELSE out' = Epoch(out) /\ buffer' = buffer \o Added]_vars

\* C8 witness: a white-space-only chunk has just been added and has made addChunk
\* emit the buffered sentence.
C8_Witness ==
    /\ last = Handler("addChunk", 1)
    /\ buffer = <<>>
    /\ out # <<>>

\* C9: flush() on a buffer that holds more than white space emits the buffer without
\* the white space at its ends, once, and leaves the buffer empty; on any other
\* buffer it emits nothing (and leaves the buffer as it is).
C9_Flush ==
    [][last'.op = "flush" =>
          IF \E k \in 1..Len(buffer) : ~IsSpace(buffer[k])
          THEN /\ Len(flushOut') = Len(flushOut) + 1
               /\ IsTrimOf(flushOut'[Len(flushOut')], buffer)
               /\ SubSeq(flushOut', 1, Len(flushOut)) = flushOut
               /\ buffer' = <<>>
          ELSE flushOut' = flushOut /\ buffer' = buffer]_vars

\* C9 witness: flush() has just emitted a text that does not end with a terminator.
C9_Witness ==
    /\ last.op = "flush"
    /\ Len(flushOut) = 1
    /\ ~IsTerm(flushOut[1][Len(flushOut[1])])
    /\ buffer = <<>>

\* C10: the flush() calls made in a row emit at most one sentence in total, and a
\* flush() that follows a flush() emits nothing and leaves the buffer as it is.
C10_FlushTwice ==
    /\ [](Len(flushOut) <= 1)
    /\ [][(last.op = "flush" /\ last'.op = "flush") =>
             (flushOut' = flushOut /\ buffer' = buffer)]_vars

\* C10 witness: flush() has run twice in a row and the first call emitted a sentence.
C10_Witness ==
    /\ last = Handler("flush", 2)
    /\ Len(flushOut) = 1

\* the characters of a text that are not white space
NonSpace(s) == SelectSeq(s, LAMBDA c : ~IsSpace(c))

\* the concatenation of a sequence of texts
RECURSIVE Flatten(_)
Flatten(ss) == IF ss = <<>> THEN <<>> ELSE Head(ss) \o Flatten(Tail(ss))

\* the number of characters of the input that are no longer in the buffer
Consumed == Len(Epoch(input)) - Len(buffer)

C12_EmissionOrder ==
    /\ [](\A k \in 1..Len(out) : Boundaries(out[k]) = {})
    /\ [](\A k \in 1..Len(flushOut) : Boundaries(flushOut[k]) = {})
    /\ [][last'.op = "addChunk" =>
             /\ Len(out') = Cardinality(Boundaries(input'))
             /\ Len(out') >= Len(Epoch(out))
             /\ SubSeq(out', 1, Len(Epoch(out))) = Epoch(out)
             /\ \A k \in (Len(Epoch(out)) + 1)..Len(out') : out'[k] = Piece(input', k)]_vars
    /\ [][last'.op = "flush" =>
             /\ out' = out
             /\ flushOut' # <<>> =>
                    NonSpace(Flatten(out' \o flushOut')) = NonSpace(input')]_vars

\* C12 witness: one addChunk call has just emitted two different sentences, "a." and
\* then "!".
C12_Witness ==
    /\ last = Handler("addChunk", 3)
    /\ out = << <<"a", ".">>, <<"!">> >>

\* the characters emitted since the last reset() or emitting flush(), white space aside
EmittedText == NonSpace(Flatten(out \o flushOut))

\* C13: reset() leaves the buffer empty and hands nothing to onSentence; and whatever
\* is emitted afterwards is made of the chunks added after the reset() alone: the
\* characters emitted are, in order, the first characters of those chunks.
C13_Reset ==
    /\ [][last'.op = "reset" =>
             /\ buffer' = <<>>
             /\ out' = <<>>
             /\ flushOut' = <<>>]_vars
    /\ [](/\ Len(EmittedText) <= Len(NonSpace(input))
          /\ EmittedText = SubSeq(NonSpace(input), 1, Len(EmittedText)))

\* C13 witness: reset() has just run on a buffer that held text.
C13_Witness ==
    /\ last = Handler("reset", 1)
    /\ buffer = <<>>
    /\ out = <<>> /\ flushOut = <<>>

\* a text that is one run of terminators, with or without white space after it
TerminatorOnly(s) ==
    \E n \in 1..Len(s) :
        /\ \A k \in 1..n : IsTerm(s[k])
        /\ \A k \in (n + 1)..Len(s) : IsSpace(s[k])

\* C14 (as claimed): addChunk of a chunk that is only a terminator, with or without
\* white space after it, on an empty buffer emits nothing, and a flush() that follows
\* it emits nothing either.
C14_TerminatorOnlyDropped ==
    /\ [][(last'.op = "addChunk" /\ buffer = <<>> /\ Epoch(input) = <<>>
              /\ TerminatorOnly(input')) => out' = <<>>]_vars
    /\ [][(last'.op = "flush" /\ last.op = "addChunk" /\ out = <<>>
              /\ Len(input) = 1 /\ TerminatorOnly(input)) => flushOut' = <<>>]_vars

\* the length of the run of terminators that ends at position b of a text
RunLength(s, b) ==
    Cardinality({n \in 1..b : \A k \in (b - n + 1)..b : IsTerm(s[k])})

\* C15: a run of terminators followed by white space is one boundary: addChunk emits
\* one sentence per such run, and that sentence ends with the whole run, however the
\* chunks divide the run.
C15_TerminatorRun ==
    /\ Len(out) = Cardinality(Boundaries(input))
    /\ \A k \in 1..Len(out) :
          /\ out[k] # <<>>
          /\ RunLength(out[k], Len(out[k])) = RunLength(input, Nth(Boundaries(input), k))

\* C15 witness: the text "a.!. " has been emitted as the one sentence "a.!."; the
\* last chunk was not white space alone and holds at most MaxChunk characters, so it
\* began inside the run of terminators.
C15_Witness ==
    /\ last = Handler("addChunk", 2)
    /\ input = <<"a", ".", "!", ".", " ">>
    /\ out = << <<"a", ".", "!", ".">> >>
    /\ buffer = <<>>

=============================================================================
